---- MODULE Spec2Model ----
(***************************************************************************)
(* Model of the browser calculator of wasm_demo (browser/src/lib.rs):      *)
(* calculate, needs_next_day, format_clock, format_time, parse_time.       *)
(*                                                                         *)
(* The calculator works on f64 values.  They are modelled bit-exactly as   *)
(* IEEE-754 binary64 numbers (53-bit significand, round to nearest, ties   *)
(* to even): a finite f64 is the record [sg, m, e] of value                *)
(* (-1)^sg * m * 2^e, where m is 0 or 2^52 <= m < 2^53.  The significand   *)
(* is a natural number kept as a little-endian sequence of base-2^14       *)
(* digits, because a product of two significands needs 106 bits.           *)
(* Subnormal values keep fewer bits, values beyond the largest finite one  *)
(* are infinite, and there is one NaN (its sign and payload are not kept). *)
(***************************************************************************)
EXTENDS Integers, Sequences, FiniteSets, TLC

\* Operands and locals are values: an expression is evaluated once and the
\* operation or the rest of the body is applied to its value.
Let(x, Body(_)) == CHOOSE r \in {Body(v) : v \in {x}} : TRUE
ByValue(x, y, Op(_, _)) == CHOOSE r \in {Op(a, b) : a \in {x}, b \in {y}} : TRUE

(***************************************************************************)
(* Natural numbers of arbitrary size                                       *)
(***************************************************************************)
LimbBits == 14
Base == 2^LimbBits

RECURSIVE BNorm(_)
BNorm(a) == IF a = <<>> THEN <<>>
            ELSE IF a[Len(a)] = 0 THEN BNorm(SubSeq(a, 1, Len(a) - 1)) ELSE a

RECURSIVE BFromInt(_)
BFromInt(n) == IF n = 0 THEN <<>> ELSE <<n % Base>> \o BFromInt(n \div Base)

RECURSIVE BToInt(_)
BToInt(a) == IF a = <<>> THEN 0 ELSE a[1] + Base * BToInt(Tail(a))

BLimb(a, i) == IF i <= Len(a) THEN a[i] ELSE 0

RECURSIVE BAddFrom(_, _, _, _, _)
BAddFrom(a, b, i, c, acc) ==
    IF i > Len(a) /\ i > Len(b)
    THEN (IF c = 0 THEN acc ELSE Append(acc, c))
    ELSE LET s == BLimb(a, i) + BLimb(b, i) + c
         IN  BAddFrom(a, b, i + 1, s \div Base, Append(acc, s % Base))

BAdd(a0, b0) == ByValue(a0, b0, LAMBDA a, b : BAddFrom(a, b, 1, 0, <<>>))

\* a - b for a >= b
RECURSIVE BSubFrom(_, _, _, _, _)
BSubFrom(a, b, i, c, acc) ==
    IF i > Len(a)
    THEN BNorm(acc)
    ELSE LET s == a[i] - BLimb(b, i) - c
         IN  IF s < 0 THEN BSubFrom(a, b, i + 1, 1, Append(acc, s + Base))
                      ELSE BSubFrom(a, b, i + 1, 0, Append(acc, s))

BSub(a0, b0) == ByValue(a0, b0, LAMBDA a, b : BSubFrom(a, b, 1, 0, <<>>))

\* -1, 0, 1 as a < b, a = b, a > b (both normalised)
RECURSIVE BCmpFrom(_, _, _)
BCmpFrom(a, b, i) ==
    IF i = 0 THEN 0
    ELSE IF a[i] < b[i] THEN -1
    ELSE IF a[i] > b[i] THEN 1
    ELSE BCmpFrom(a, b, i - 1)

BCmp(a0, b0) == ByValue(a0, b0, LAMBDA a, b :
    IF Len(a) < Len(b) THEN -1
    ELSE IF Len(a) > Len(b) THEN 1
    ELSE BCmpFrom(a, b, Len(a)))

\* a * x for a digit 0 <= x <= Base
RECURSIVE BMulSmallFrom(_, _, _, _, _)
BMulSmallFrom(a, x, i, c, acc) ==
    IF i > Len(a)
    THEN (IF c = 0 THEN acc ELSE Append(acc, c))
    ELSE LET s == a[i] * x + c
         IN  BMulSmallFrom(a, x, i + 1, s \div Base, Append(acc, s % Base))

BMulSmall(a0, x0) == ByValue(a0, x0, LAMBDA a, x :
    IF x = 0 THEN <<>> ELSE BMulSmallFrom(a, x, 1, 0, <<>>))

BShiftLimbs(a0, k0) == ByValue(a0, k0, LAMBDA a, k :
    IF a = <<>> THEN <<>> ELSE [i \in 1..k |-> 0] \o a)

RECURSIVE BMulFrom(_, _, _, _)
BMulFrom(a, b, j, acc) ==
    IF j > Len(b) THEN acc
    ELSE BMulFrom(a, b, j + 1, BAdd(acc, BShiftLimbs(BMulSmall(a, b[j]), j - 1)))

BMul(a0, b0) == ByValue(a0, b0, LAMBDA a, b : BMulFrom(a, b, 1, <<>>))

\* a * 2^k
BShl(a0, k0) == ByValue(a0, k0, LAMBDA a, k :
    BShiftLimbs(BMulSmall(a, 2^(k % LimbBits)), k \div LimbBits))

\* floor(a / x) for a digit 1 <= x <= Base
RECURSIVE BDivSmallFrom(_, _, _, _, _)
BDivSmallFrom(a, x, i, r, acc) ==
    IF i = 0 THEN BNorm(acc)
    ELSE LET s == r * Base + a[i]
         IN  BDivSmallFrom(a, x, i - 1, s % x, <<s \div x>> \o acc)

\* floor(a / 2^k)
BShr(a0, k0) == ByValue(a0, k0, LAMBDA a, k :
    LET w == k \div LimbBits
    IN  Let(IF w >= Len(a) THEN <<>> ELSE SubSeq(a, w + 1, Len(a)), LAMBDA d :
            BDivSmallFrom(d, 2^(k % LimbBits), Len(d), 0, <<>>)))

RECURSIVE IntBitLen(_)
IntBitLen(n) == IF n = 0 THEN 0 ELSE 1 + IntBitLen(n \div 2)

BBitLen(a0) == Let(a0, LAMBDA a :
    IF a = <<>> THEN 0 ELSE LimbBits * (Len(a) - 1) + IntBitLen(a[Len(a)]))

BIsOdd(a) == a # <<>> /\ a[1] % 2 = 1

(***************************************************************************)
(* f64: IEEE-754 binary64, round to nearest, ties to even                  *)
(***************************************************************************)
MantBits == 53

\* the exponent of the last bit of a significand: that of the subnormals
\* and of the smallest normals, and that of the largest finite values
ExpMin == -1074
ExpMax == 971

F64Zero(sg) == [k |-> "fin", sg |-> sg, m |-> <<>>, e |-> 0]
F64Inf(sg) == [k |-> "inf", sg |-> sg, m |-> <<>>, e |-> 0]
F64NaN == [k |-> "nan", sg |-> 0, m |-> <<>>, e |-> 0]

F64IsNaN(x) == x.k = "nan"
F64IsInf(x) == x.k = "inf"
F64IsZero(x) == x.k = "fin" /\ x.m = <<>>

\* the significand m at the exponent e as an f64: zero when nothing is
\* left of it, infinite when it lies above the largest finite value
F64InRange(sg, m, e) ==
    IF m = <<>> THEN F64Zero(sg)
    ELSE IF e > ExpMax THEN F64Inf(sg)
    ELSE [k |-> "fin", sg |-> sg, m |-> m, e |-> e]

\* the f64 nearest to (-1)^sg * (n + t) * 2^e, for a natural n > 0 and
\* 0 <= t < 1 with t > 0 iff sticky (sticky only when n has spare bits):
\* 53 bits are kept, fewer where the value is subnormal
F64Pack(sg, n0, e, sticky) ==
    ByValue(n0, BBitLen(n0), LAMBDA n, len :
        LET last == IF e + len - MantBits < ExpMin THEN ExpMin ELSE e + len - MantBits
            d    == last - e
        IN  IF d <= 0 THEN F64InRange(sg, BShl(n, -d), last)
            ELSE IF d > len THEN F64Zero(sg)
            ELSE Let(BShr(n, d), LAMBDA q :
                 Let(BCmp(BSub(n, BShl(q, d)), BShl(<<1>>, d - 1)), LAMBDA cmp :
                 Let(IF cmp > 0 \/ (cmp = 0 /\ (sticky \/ BIsOdd(q)))
                     THEN BAdd(q, <<1>>) ELSE q, LAMBDA q2 :
                     IF BBitLen(q2) > MantBits
                     THEN F64InRange(sg, BShr(q2, 1), last + 1)
                     ELSE F64InRange(sg, q2, last)))))

\* `n as f64` for an i32 n
F64FromInt(n) ==
    IF n = 0 THEN F64Zero(0)
    ELSE IF n < 0 THEN F64Pack(1, BAdd(BFromInt(-(n + 1)), <<1>>), 0, FALSE)
    ELSE F64Pack(0, BFromInt(n), 0, FALSE)

F64Neg(x) == IF F64IsNaN(x) THEN x ELSE [x EXCEPT !.sg = 1 - x.sg]

\* a finite nonzero value with its significand brought to 53 bits (the
\* exponent of a subnormal, normalised, lies below ExpMin)
F64Norm(x) ==
    LET s == MantBits - BBitLen(x.m)
    IN  [m |-> BShl(x.m, s), e |-> x.e - s]

\* the exponent of the leading bit of a finite nonzero value, plus one
F64Top(x) == x.e + BBitLen(x.m)

\* magnitudes of two nonzero values that are no NaN: -1, 0, 1
F64CmpMag(x, y) ==
    IF F64IsInf(x) /\ F64IsInf(y) THEN 0
    ELSE IF F64IsInf(x) THEN 1
    ELSE IF F64IsInf(y) THEN -1
    ELSE IF F64Top(x) < F64Top(y) THEN -1
    ELSE IF F64Top(x) > F64Top(y) THEN 1
    ELSE BCmp(F64Norm(x).m, F64Norm(y).m)

\* -1, 0, 1 as x < y, x = y, x > y (-0.0 = 0.0), and 2 when x or y is NaN:
\* every comparison with a NaN is false
F64Cmp(x0, y0) == ByValue(x0, y0, LAMBDA x, y :
    IF F64IsNaN(x) \/ F64IsNaN(y) THEN 2
    ELSE IF F64IsZero(x) /\ F64IsZero(y) THEN 0
    ELSE IF F64IsZero(x) THEN (IF y.sg = 1 THEN 1 ELSE -1)
    ELSE IF F64IsZero(y) THEN (IF x.sg = 1 THEN -1 ELSE 1)
    ELSE IF x.sg # y.sg THEN (IF x.sg = 1 THEN -1 ELSE 1)
    ELSE IF x.sg = 0 THEN F64CmpMag(x, y) ELSE F64CmpMag(y, x))

F64Le(x, y) == F64Cmp(x, y) \in {-1, 0}
F64Lt(x, y) == F64Cmp(x, y) = -1
F64Ge(x, y) == F64Cmp(x, y) \in {0, 1}
F64Gt(x, y) == F64Cmp(x, y) = 1
F64Eq(x, y) == F64Cmp(x, y) = 0

\* x + y.  Of two finite values whose leading bits lie more than 55 places
\* apart the smaller is below a quarter of the last place of the larger,
\* and the sum rounds to the larger.
F64Add(x0, y0) == ByValue(x0, y0, LAMBDA x, y :
    IF F64IsNaN(x) \/ F64IsNaN(y) THEN F64NaN
    ELSE IF F64IsInf(x) /\ F64IsInf(y) THEN (IF x.sg = y.sg THEN x ELSE F64NaN)
    ELSE IF F64IsInf(x) THEN x
    ELSE IF F64IsInf(y) THEN y
    ELSE IF F64IsZero(x) /\ F64IsZero(y)
    THEN F64Zero(IF x.sg = 1 /\ y.sg = 1 THEN 1 ELSE 0)
    ELSE IF F64IsZero(x) THEN y
    ELSE IF F64IsZero(y) THEN x
    ELSE IF F64Top(x) - F64Top(y) > MantBits + 2 THEN x
    ELSE IF F64Top(y) - F64Top(x) > MantBits + 2 THEN y
    ELSE LET emin == IF x.e < y.e THEN x.e ELSE y.e
             nx   == BShl(x.m, x.e - emin)
             ny   == BShl(y.m, y.e - emin)
             cmp  == BCmp(nx, ny)
         IN  IF x.sg = y.sg THEN F64Pack(x.sg, BAdd(nx, ny), emin, FALSE)
             ELSE IF cmp = 0 THEN F64Zero(0)
             ELSE IF cmp > 0 THEN F64Pack(x.sg, BSub(nx, ny), emin, FALSE)
             ELSE F64Pack(y.sg, BSub(ny, nx), emin, FALSE))

F64Sub(x, y) == F64Add(x, F64Neg(y))

F64Mul(x0, y0) == ByValue(x0, y0, LAMBDA x, y :
    LET sg == (x.sg + y.sg) % 2
    IN  IF F64IsNaN(x) \/ F64IsNaN(y) THEN F64NaN
        ELSE IF F64IsInf(x) \/ F64IsInf(y)
        THEN (IF F64IsZero(x) \/ F64IsZero(y) THEN F64NaN ELSE F64Inf(sg))
        ELSE IF F64IsZero(x) \/ F64IsZero(y) THEN F64Zero(sg)
        ELSE F64Pack(sg, BMul(x.m, y.m), x.e + y.e, FALSE))

\* one step of schoolbook division in base 2^14 (Knuth's algorithm D): the
\* digit q = floor(r * Base / d) and the remainder, for r < d and d with its
\* top digit at least Base / 2; the estimate from the leading digits is at
\* most 2 too large
BDivDigit(r, d0) == ByValue(BShiftLimbs(r, 1), d0, LAMBDA R, d :
    LET n == Len(d)
    IN  Let((BLimb(R, n + 1) * Base + BLimb(R, n)) \div d[n], LAMBDA est :
        Let(IF est > Base - 1 THEN Base - 1 ELSE est, LAMBDA q0 :
        Let(IF BCmp(BMulSmall(d, q0), R) > 0 THEN q0 - 1 ELSE q0, LAMBDA q1 :
        Let(IF BCmp(BMulSmall(d, q1), R) > 0 THEN q1 - 1 ELSE q1, LAMBDA q2 :
            [q |-> q2, r |-> BSub(R, BMulSmall(d, q2))])))))

\* i digits of the quotient r0 * Base^i / d, and the remainder, for r0 < d
RECURSIVE BDivDigits(_, _, _)
BDivDigits(r0, d, i) ==
    IF i = 0 THEN [q |-> <<>>, r |-> r0]
    ELSE Let(BDivDigits(r0, d, i - 1), LAMBDA p :
         Let(BDivDigit(p.r, d), LAMBDA s :
             [q |-> BNorm(<<s.q>> \o p.q), r |-> s.r]))

DivDigits == 4

\* x / y: NaN for 0/0 and inf/inf, infinite for a division by zero,
\* otherwise the quotient of the 53-bit significands to DivDigits digits
\* after the point, with the remainder as the sticky bit
F64Div(x0, y0) == ByValue(x0, y0, LAMBDA x, y :
    LET sg == (x.sg + y.sg) % 2
    IN  IF F64IsNaN(x) \/ F64IsNaN(y) THEN F64NaN
        ELSE IF F64IsInf(x) THEN (IF F64IsInf(y) THEN F64NaN ELSE F64Inf(sg))
        ELSE IF F64IsInf(y) THEN F64Zero(sg)
        ELSE IF F64IsZero(y) THEN (IF F64IsZero(x) THEN F64NaN ELSE F64Inf(sg))
        ELSE IF F64IsZero(x) THEN F64Zero(sg)
        ELSE ByValue(F64Norm(x), F64Norm(y), LAMBDA nx, ny :
             LET sh == LimbBits * Len(ny.m) - MantBits
                 dn == BShl(ny.m, sh)
                 xn == BShl(nx.m, sh)
                 ge == BCmp(xn, dn) >= 0
             IN  Let(BDivDigits(IF ge THEN BSub(xn, dn) ELSE xn, dn, DivDigits), LAMBDA d :
                     F64Pack(sg,
                             IF ge THEN BAdd(BShiftLimbs(<<1>>, DivDigits), d.q) ELSE d.q,
                             nx.e - ny.e - LimbBits * DivDigits, d.r # <<>>))))

I32Max == 2147483647
I32Min == -I32Max - 1

\* f64::round of the magnitude of a finite nonzero x with x.e < 0, as a
\* natural number: halves round away from zero
F64RoundMag(x) ==
    LET k == -x.e
    IN  IF k > MantBits + 1 THEN <<>>
        ELSE Let(BShr(x.m, k), LAMBDA ip :
                 IF BCmp(BSub(x.m, BShl(ip, k)), BShl(<<1>>, k - 1)) >= 0
                 THEN BAdd(ip, <<1>>) ELSE ip)

\* `x.round() as i32`: the cast saturates, and gives 0 for a NaN
F64RoundToI32(x0) == Let(x0, LAMBDA x :
    IF F64IsNaN(x) \/ F64IsZero(x) THEN 0
    ELSE LET sat == IF x.sg = 1 THEN I32Min ELSE I32Max
         IN  IF F64IsInf(x) \/ x.e >= 0 THEN sat
             ELSE Let(F64RoundMag(x), LAMBDA r :
                      IF BBitLen(r) > 31 THEN sat
                      ELSE IF x.sg = 1 THEN -BToInt(r) ELSE BToInt(r)))

\* u32::MAX as a natural number
U32Max == BSub(BShl(<<1>>, 32), <<1>>)

\* `x.round() as u32`, as a natural number (it need not fit the model's
\* integers): the cast saturates at 0 and at u32::MAX, and gives 0 for a NaN
F64RoundToU32(x0) == Let(x0, LAMBDA x :
    IF F64IsNaN(x) \/ F64IsZero(x) \/ x.sg = 1 THEN <<>>
    ELSE IF F64IsInf(x) \/ x.e >= 0 THEN U32Max
    ELSE Let(F64RoundMag(x), LAMBDA r :
             IF BCmp(r, U32Max) > 0 THEN U32Max ELSE r))

(***************************************************************************)
(* i32 / u32 arithmetic as Rust does it: `/` truncates toward zero and `%` *)
(* takes the sign of the dividend.                                         *)
(***************************************************************************)
\* a / b and a % b for b > 0
I32Div(a, b) == IF a >= 0 \/ a % b = 0 THEN a \div b ELSE (a \div b) + 1
I32Rem(a, b) == a - b * I32Div(a, b)

\* floor(a / x) and a mod x of a natural number a, for 1 <= x <= Base
U32Div(a0, x) == Let(a0, LAMBDA a : BDivSmallFrom(a, x, Len(a), 0, <<>>))
U32Rem(a0, x) == Let(a0, LAMBDA a : BToInt(BSub(a, BMulSmall(U32Div(a, x), x))))

\* The build: whether integer overflow is checked (`overflow-checks`, on in
\* the debug profile and off in the release profile).  The source leaves
\* the profile open.
VARIABLE overflow_checks

\* What an arithmetic step leaves: a value, or the panic of the thread.
Value(v) == [panic |-> FALSE, value |-> v]
Panic(msg) == [panic |-> TRUE, message |-> msg]

\* a + b in i32.  A sum outside the i32 range panics in a build with
\* overflow checks (the debug profile) and wraps around in two's complement
\* in a build without (the release profile); the wrapped sum is computed
\* without leaving the 32-bit range.
I32Add(a, b) ==
    IF a > 0 /\ b > I32Max - a
    THEN (IF overflow_checks THEN Panic("attempt to add with overflow")
          ELSE Value((a - I32Max - 1) + (b - I32Max - 1)))
    ELSE IF a < 0 /\ b < I32Min - a
    THEN (IF overflow_checks THEN Panic("attempt to add with overflow")
          ELSE Value((a + I32Max + 1) + (b + I32Max + 1)))
    ELSE Value(a + b)

(***************************************************************************)
(* Text: a string is the sequence of its characters                        *)
(***************************************************************************)
Digits == <<"0", "1", "2", "3", "4", "5", "6", "7", "8", "9">>

DigitValue(c) == CHOOSE d \in 0..9 : Digits[d + 1] = c

IsDigit(c) == \E d \in 0..9 : Digits[d + 1] = c

\* `{}` of a non-negative integer
RECURSIVE DecStr(_)
DecStr(n) == IF n < 10 THEN <<Digits[n + 1]>>
             ELSE Append(DecStr(n \div 10), Digits[(n % 10) + 1])

\* `{:02}` of a non-negative integer
Pad2(n) == IF n < 10 THEN <<"0">> \o DecStr(n) ELSE DecStr(n)

\* str::split(':'): the pieces between the colons
RECURSIVE SplitColon(_, _, _)
SplitColon(str, i, cur) ==
    IF i > Len(str) THEN <<cur>>
    ELSE IF str[i] = ":" THEN <<cur>> \o SplitColon(str, i + 1, <<>>)
    ELSE SplitColon(str, i + 1, Append(cur, str[i]))

\* the natural number a decimal numeral denotes
RECURSIVE DigitsValue(_, _, _)
DigitsValue(str, i, acc) ==
    IF i > Len(str) THEN acc
    ELSE DigitsValue(str, i + 1, BAdd(BMulSmall(acc, 10), BFromInt(DigitValue(str[i]))))

None == <<>>
Some(v) == <<v>>

\* str::parse::<u32>().ok(): an optional '+', then one or more decimal
\* digits that denote a number up to u32::MAX; the value is a natural
\* number (it need not fit the model's integers)
ParseU32(str) ==
    LET body == IF str # <<>> /\ str[1] = "+" THEN Tail(str) ELSE str
    IN  IF body = <<>> \/ \E i \in 1..Len(body) : ~IsDigit(body[i])
        THEN None
        ELSE Let(DigitsValue(body, 1, <<>>), LAMBDA v :
                 IF BCmp(v, U32Max) > 0 THEN None ELSE Some(v))

\* parse_time with the hour bound off by one: `hours > 24`
parse_time_hour_24(time_str) ==
    LET parts == SplitColon(time_str, 1, <<>>)
    IN  IF Len(parts) # 2 THEN None
        ELSE LET hours   == ParseU32(parts[1])
                 minutes == ParseU32(parts[2])
             IN  IF hours = None \/ minutes = None THEN None
                 ELSE IF BCmp(hours[1], BFromInt(24)) > 0
                         \/ BCmp(minutes[1], BFromInt(60)) >= 0 THEN None
                 ELSE Some(BToInt(hours[1]) * 60 + BToInt(minutes[1]))

parse_time(time_str) ==
    LET parts == SplitColon(time_str, 1, <<>>)
    IN  IF Len(parts) # 2 THEN None
        ELSE LET hours   == ParseU32(parts[1])
                 minutes == ParseU32(parts[2])
             IN  IF hours = None \/ minutes = None THEN None
                 ELSE IF BCmp(hours[1], BFromInt(24)) >= 0
                         \/ BCmp(minutes[1], BFromInt(60)) >= 0 THEN None
                 ELSE Some(BToInt(hours[1]) * 60 + BToInt(minutes[1]))

format_clock(total_minutes) ==
    LET h == I32Rem(I32Rem(I32Div(total_minutes, 60), 24) + 24, 24)
        m == I32Rem(I32Rem(total_minutes, 60) + 60, 60)
    IN  Pad2(h) \o <<":">> \o Pad2(m)

SixtyF == F64FromInt(60)

\* format_time truncating the minutes (`as u32` without `.round()`)
format_time_truncating(hours) ==
    Let(F64Mul(hours, SixtyF), LAMBDA x :
    Let(IF F64IsNaN(x) \/ F64IsZero(x) \/ x.sg = 1 THEN <<>>
        ELSE IF F64IsInf(x) \/ x.e >= 0 \/ BCmp(BShr(x.m, -x.e), U32Max) > 0 THEN U32Max
        ELSE BShr(x.m, -x.e), LAMBDA total_minutes :
    LET h == BToInt(U32Div(total_minutes, 60))
        m == U32Rem(total_minutes, 60)
    IN  IF m > 0
        THEN DecStr(h) \o <<" ", "u", "u", "r", " ", "e", "n", " ">> \o DecStr(m)
                 \o <<" ", "m", "i", "n", "u", "t", "e", "n">>
        ELSE DecStr(h) \o <<" ", "u", "u", "r">>))

format_time(hours) ==
    Let(F64RoundToU32(F64Mul(hours, SixtyF)), LAMBDA total_minutes :
    LET h == BToInt(U32Div(total_minutes, 60))
        m == U32Rem(total_minutes, 60)
    IN  IF m > 0
        THEN DecStr(h) \o <<" ", "u", "u", "r", " ", "e", "n", " ">> \o DecStr(m)
                 \o <<" ", "m", "i", "n", "u", "t", "e", "n">>
        ELSE DecStr(h) \o <<" ", "u", "u", "r">>)

\* needs_next_day with `arrival <= start`
needs_next_day_or_equal(start_time, arrival_time) ==
    LET start   == parse_time(start_time)
        arrival == parse_time(arrival_time)
    IN  IF start = None THEN FALSE
        ELSE IF arrival = None THEN FALSE
        ELSE arrival[1] <= start[1]

needs_next_day(start_time, arrival_time) ==
    LET start   == parse_time(start_time)
        arrival == parse_time(arrival_time)
    IN  IF start = None THEN FALSE
        ELSE IF arrival = None THEN FALSE
        ELSE arrival[1] < start[1]

(***************************************************************************)
(* calculate                                                               *)
(***************************************************************************)
SCENARIO_ERROR == 0
SCENARIO_SAIL_ONLY == 1
SCENARIO_SAIL_AND_MOTOR == 2
SCENARIO_MOTOR_ONLY == 3
SCENARIO_MOTOR_LATE == 4

F64_0 == F64Zero(0)
F64_1 == F64FromInt(1)

\* the f64 literal 1.852: the f64 nearest to 1852/1000
F64_1_852 == F64Div(F64FromInt(1852), F64FromInt(1000))

error_result(msg) ==
    [scenario       |-> SCENARIO_ERROR,
     result_html    |-> [text |-> msg],
     sail_fraction  |-> F64_0,
     motor_fraction |-> F64_0]

\* lines 116-120: a metric quantity in nautical units
to_nautical(x, use_metric) == IF use_metric THEN F64Div(x, F64_1_852) ELSE x

\* lines 128, 158-162: a nautical quantity in the unit of the display
to_display(x, use_metric) == IF use_metric THEN F64Mul(x, F64_1_852) ELSE x

\* lines 145-148
changeover_point(dist, s_speed, m_speed, total_time) ==
    LET motor_distance   == F64Mul(m_speed, total_time)
        difference       == F64Sub(dist, motor_distance)
        speed_difference == F64Sub(s_speed, m_speed)
    IN  F64Div(difference, speed_difference)

\* line 151
combination_feasible(changeover, total_time) ==
    F64Ge(changeover, F64_0) /\ F64Le(changeover, total_time)

\* lines 152-154
motoring_time(dist, s_speed, m_speed, changeover) ==
    LET distance_sailed    == F64Mul(s_speed, changeover)
        remaining_distance == F64Sub(dist, distance_sailed)
    IN  F64Div(remaining_distance, m_speed)

\* lines 165 and 196: start_mins + (hours * 60.0).round() as i32, or the
\* panic of the addition
clock_mins(start_mins, hours) ==
    I32Add(start_mins, F64RoundToI32(F64Mul(hours, SixtyF)))

\* The scenario part of calculate (lines 115-228), entered once every
\* validation has passed.  result_html is kept as the template chosen and
\* its arguments in order; an argument formatted with {:.2} is kept as the
\* f64 value that is formatted.  The field `locals` is not part of
\* SailResult: it records the local variables the result was computed from.
\* Where the addition of a clock time panics, so does the call.
calculate_scenario(start_mins, total_time, distance, sail_speed, motor_speed, fuel_consumption, use_metric) ==
    LET unit == IF use_metric THEN "km" ELSE "zeemijl"
    IN
    Let(to_nautical(distance, use_metric), LAMBDA dist :
    Let(to_nautical(sail_speed, use_metric), LAMBDA s_speed :
    Let(to_nautical(motor_speed, use_metric), LAMBDA m_speed :
    Let(F64Div(dist, s_speed), LAMBDA sail_time_limit :
        IF F64Le(sail_time_limit, total_time)
        THEN [scenario       |-> SCENARIO_SAIL_ONLY,
              result_html    |-> [template |-> "sail_only",
                                  args |-> <<format_time(sail_time_limit),
                                             to_display(dist, use_metric),
                                             unit>>],
              sail_fraction  |-> F64_1,
              motor_fraction |-> F64_0,
              locals         |-> [start_mins |-> start_mins,
                                  total_time |-> total_time]]
        ELSE
    Let(changeover_point(dist, s_speed, m_speed, total_time), LAMBDA changeover :
        IF combination_feasible(changeover, total_time)
        THEN
    Let(F64Mul(s_speed, changeover), LAMBDA distance_sailed :
    Let(F64Sub(dist, distance_sailed), LAMBDA remaining_distance :
    Let(motoring_time(dist, s_speed, m_speed, changeover), LAMBDA motoring :
    Let(clock_mins(start_mins, changeover), LAMBDA changeover_clock_mins :
        IF changeover_clock_mins.panic THEN changeover_clock_mins
        ELSE [scenario       |-> SCENARIO_SAIL_AND_MOTOR,
              result_html    |-> [template |-> "sail_and_motor",
                                  args |-> <<format_time(changeover),
                                             to_display(distance_sailed, use_metric),
                                             unit,
                                             to_display(remaining_distance, use_metric),
                                             unit,
                                             format_time(motoring),
                                             format_clock(changeover_clock_mins.value),
                                             F64Mul(motoring, fuel_consumption)>>],
              sail_fraction  |-> F64Div(changeover, total_time),
              motor_fraction |-> F64Div(motoring, total_time),
              locals         |-> [start_mins |-> start_mins,
                                  total_time |-> total_time,
                                  changeover_point |-> changeover,
                                  motoring_time |-> motoring]]))))
        ELSE
    Let(F64Div(dist, m_speed), LAMBDA time_to_motor_full :
        IF F64Gt(time_to_motor_full, total_time)
        THEN
    Let(clock_mins(start_mins, time_to_motor_full), LAMBDA actual_arrival_mins :
        IF actual_arrival_mins.panic THEN actual_arrival_mins
        ELSE [scenario       |-> SCENARIO_MOTOR_LATE,
              result_html    |-> [template |-> "motor_late",
                                  args |-> <<format_clock(actual_arrival_mins.value),
                                             F64Mul(time_to_motor_full, fuel_consumption)>>],
              sail_fraction  |-> F64_0,
              motor_fraction |-> F64_1,
              locals         |-> [start_mins |-> start_mins,
                                  total_time |-> total_time,
                                  changeover_point |-> changeover,
                                  time_to_motor_full |-> time_to_motor_full]])
        ELSE [scenario       |-> SCENARIO_MOTOR_ONLY,
              result_html    |-> [template |-> "motor_only",
                                  args |-> <<format_time(time_to_motor_full),
                                             F64Mul(time_to_motor_full, fuel_consumption)>>],
              sail_fraction  |-> F64_0,
              motor_fraction |-> F64Div(time_to_motor_full, total_time),
              locals         |-> [start_mins |-> start_mins,
                                  total_time |-> total_time,
                                  changeover_point |-> changeover,
                                  time_to_motor_full |-> time_to_motor_full]]))))))

calculate(start_time, arrival_time, distance, sail_speed, motor_speed, fuel_consumption, use_metric, is_next_day) ==
    LET start   == parse_time(start_time)
        arrival == parse_time(arrival_time)
    IN  IF start = None THEN error_result("Ongeldige starttijd.")
        ELSE IF arrival = None THEN error_result("Ongeldige aankomsttijd.")
        ELSE IF F64Le(distance, F64_0)
        THEN error_result("Afstand moet groter zijn dan 0.")
        ELSE IF F64Le(sail_speed, F64_0)
        THEN error_result("Zeilsnelheid moet groter zijn dan 0.")
        ELSE IF F64Le(motor_speed, F64_0)
        THEN error_result("Motorsnelheid moet groter zijn dan 0.")
        ELSE IF F64Le(motor_speed, sail_speed)
        THEN error_result("Motorsnelheid moet groter zijn dan zeilsnelheid.")
        ELSE LET diff_mins == (arrival[1] - start[1]) + (IF is_next_day THEN 24 * 60 ELSE 0)
             IN  Let(F64Div(F64FromInt(diff_mins), SixtyF), LAMBDA total_time :
                 IF F64Le(total_time, F64_0)
                 THEN error_result("Aankomsttijd moet later zijn dan starttijd.")
                 ELSE calculate_scenario(start[1], total_time, distance, sail_speed,
                                         motor_speed, fuel_consumption, use_metric))

(***************************************************************************)
(* The calls.  Every entry point is a pure function of its arguments, so a *)
(* call is one step: a caller holds the arguments it passes, and after the *)
(* step also the value that came back, unless the call panicked.           *)
(***************************************************************************)
VARIABLES pc, call, ret

vars == <<pc, call, ret, overflow_checks>>

\* the next f64 above a positive finite x
F64NextUp(x) == F64Pack(x.sg, BAdd(x.m, <<1>>), x.e, FALSE)

\* numeric arguments of calculate, as f64 values: whole numbers up to a
\* bound and, beyond them, a far and a huge distance, two speeds next to
\* each other (1.9 and the f64 above it), subnormal values, infinite and NaN
MaxDistance == 11
FarDistance == 60
HugeDistance == 2000000000
MaxSpeed == 6
MaxFuel == 2

F64_1_9 == F64Div(F64FromInt(19), F64FromInt(10))

\* n times the smallest positive f64, 2^-1074
F64Tiny(n) == F64Pack(0, BFromInt(n), ExpMin, FALSE)

WholeDistances == {F64FromInt(n) : n \in -1..MaxDistance}
WholeSpeeds == {F64FromInt(n) : n \in 0..MaxSpeed}
Distances == WholeDistances
                 \cup {F64FromInt(FarDistance), F64FromInt(HugeDistance), F64Tiny(3),
                       F64Inf(0), F64NaN}
Speeds == WholeSpeeds
              \cup {F64_1_9, F64NextUp(F64_1_9), F64Tiny(1), F64Tiny(2), F64Inf(0), F64NaN}
FuelRates == {F64_0, F64FromInt(MaxFuel)}

StartTimes == {<<"0","8",":","0","0">>, <<"2","3",":","3","0">>,
               <<"2","4",":","0","0">>}
ArrivalTimes == {<<"0","8",":","0","0">>, <<"0","8",":","3","6">>,
                 <<"0","9",":","5","0">>, <<"1","1",":","4","0">>,
                 <<"0","8",":","6","0">>}
DayStartTimes == {<<"0","0",":","0","0">>, <<"0","8",":","0","0">>}
DayArrivalTimes == {<<"0","9",":","5","0">>}

\* arguments of needs_next_day: every text of up to MaxTimeLen characters
\* over TimeChars, and some texts of other shapes
MaxTimeLen == 4
TimeChars == {"1", "6", ":"}
ShortTexts == UNION {[1..k -> TimeChars] : k \in 0..MaxTimeLen}
OtherTexts == {<<"0","8",":","0","0">>, <<"0","7",":","5","9">>,
               <<"2","3",":","5","9">>, <<"0","0",":","0","0">>,
               <<"2","4",":","0","0">>, <<"1","2",":","6","0">>,
               <<"+","8",":","0","5">>, <<"-","8",":","0","5">>,
               <<"8",":","5">>, <<"0","8","0","0">>,
               <<"0","8",":","0","0",":","0","0">>, <<" ","8",":","0","0">>,
               <<"a","b",":","c","d">>, <<"0","8",":","0","x">>,
               <<"0","0","0","8",":","0","0","0","5">>,
               <<"4","2","9","4","9","6","7","2","9","5",":","0","0">>,
               <<"4","2","9","4","9","6","7","2","9","6",":","0","0">>,
               <<"0","8",":","4","2","9","4","9","6","7","2","9","6">>,
               <<"0","8",":","0","0","4","2","9","4","9","6","7","2","9","6">>}
TimeTexts == ShortTexts \cup OtherTexts

\* arguments of format_clock
MaxOffset == 3000

\* arguments of format_time: the f64 nearest to n / d hours, which includes
\* a negative duration and, with 0 / 0, NaN
MaxNumerator == 200
Denominators == {1, 8, 120}
Durations == {<<n, d>> : n \in -1..MaxNumerator, d \in Denominators}
                 \cup {<<999999, 1000000>>, <<0, 0>>}

\* the calls a caller can make, by entry point; calculate is called with
\* every time text and flag on whole numbers, and with every number on
\* times within a day
CalculateCallsOver(starts, arrivals, distances, speeds, next_days) ==
    [fn : {"calculate"}, start_time : starts, arrival_time : arrivals,
     distance : distances, sail_speed : speeds, motor_speed : speeds,
     fuel_consumption : FuelRates, use_metric : BOOLEAN, is_next_day : next_days]

CalculateCalls ==
    CalculateCallsOver(StartTimes, ArrivalTimes, WholeDistances, WholeSpeeds, BOOLEAN)
        \cup CalculateCallsOver(DayStartTimes, DayArrivalTimes, Distances, Speeds, {FALSE})

NeedsNextDayCalls ==
    [fn : {"needs_next_day"}, start_time : TimeTexts, arrival_time : TimeTexts]

FormatClockCalls == [fn : {"format_clock"}, total_minutes : -MaxOffset..MaxOffset]

FormatTimeCalls ==
    {[fn |-> "format_time", num |-> q[1], den |-> q[2]] : q \in Durations}

\* a caller holds the arguments of its call; nothing has come back yet; the
\* build is either
InitCalls(calls) ==
    pc = "called" /\ call \in calls /\ ret = <<>> /\ overflow_checks \in BOOLEAN

Init == InitCalls(CalculateCalls \cup NeedsNextDayCalls \cup FormatClockCalls \cup FormatTimeCalls)

\* a panic leaves no value to the caller
Calculate ==
    /\ pc = "called" /\ call.fn = "calculate"
    /\ ret' = calculate(call.start_time, call.arrival_time, call.distance,
                        call.sail_speed, call.motor_speed, call.fuel_consumption,
                        call.use_metric, call.is_next_day)
    /\ pc' = IF "panic" \in DOMAIN ret' THEN "panicked" ELSE "returned"
    /\ UNCHANGED <<call, overflow_checks>>

NeedsNextDay ==
    /\ pc = "called" /\ call.fn = "needs_next_day"
    /\ ret' = needs_next_day(call.start_time, call.arrival_time)
    /\ pc' = "returned"
    /\ UNCHANGED <<call, overflow_checks>>

FormatClock ==
    /\ pc = "called" /\ call.fn = "format_clock"
    /\ ret' = format_clock(call.total_minutes)
    /\ pc' = "returned"
    /\ UNCHANGED <<call, overflow_checks>>

FormatTime ==
    /\ pc = "called" /\ call.fn = "format_time"
    /\ ret' = format_time(F64Div(F64FromInt(call.num), F64FromInt(call.den)))
    /\ pc' = "returned"
    /\ UNCHANGED <<call, overflow_checks>>

\* the caller drops the value and may make the same call again
Return ==
    /\ pc = "returned"
    /\ pc' = "called" /\ ret' = <<>>
    /\ UNCHANGED <<call, overflow_checks>>

Next == Calculate \/ NeedsNextDay \/ FormatClock \/ FormatTime \/ Return

Spec == Init /\ [][Next]_vars

NextCalc == Calculate \/ Return
SpecCalc == InitCalls(CalculateCalls) /\ [][NextCalc]_vars

NextNextDay == NeedsNextDay \/ Return
SpecNextDay == InitCalls(NeedsNextDayCalls) /\ [][NextNextDay]_vars

NextClock == FormatClock \/ Return
SpecClock == InitCalls(FormatClockCalls) /\ [][NextClock]_vars

NextTime == FormatTime \/ Return
SpecTime == InitCalls(FormatTimeCalls) /\ [][NextTime]_vars

(***************************************************************************)
(* What the claims speak of, read off the arguments of a call without the  *)
(* calculator: clock texts, minutes of the day, exact comparisons of the   *)
(* arguments' values, nearest integers.                                    *)
(***************************************************************************)
Returned(fn) == pc = "returned" /\ call.fn = fn

MinutesPerDay == 24 * 60

ColonPositions(str) == {i \in 1..Len(str) : str[i] = ":"}

Unsigned(str) == IF str # <<>> /\ str[1] = "+" THEN Tail(str) ELSE str

IsNumeral(str) ==
    /\ Unsigned(str) # <<>>
    /\ \A i \in 1..Len(Unsigned(str)) : IsDigit(Unsigned(str)[i])

RECURSIVE StripZeros(_)
StripZeros(ds) == IF ds # <<>> /\ ds[1] = "0" THEN StripZeros(Tail(ds)) ELSE ds

RECURSIVE NumeralValue(_)
NumeralValue(ds) ==
    IF ds = <<>> THEN 0
    ELSE 10 * NumeralValue(SubSeq(ds, 1, Len(ds) - 1)) + DigitValue(ds[Len(ds)])

\* the value of a numeral if it is below 100, else 100
ValueUpTo100(str) ==
    IF Len(StripZeros(Unsigned(str))) > 2 THEN 100
    ELSE NumeralValue(StripZeros(Unsigned(str)))

HourText(str) == SubSeq(str, 1, (CHOOSE i \in ColonPositions(str) : TRUE) - 1)
MinuteText(str) == SubSeq(str, (CHOOSE i \in ColonPositions(str) : TRUE) + 1, Len(str))

\* an hour below 24 and a minute below 60, as decimal numerals, either side
\* of the one colon
IsTimeText(str) ==
    /\ Cardinality(ColonPositions(str)) = 1
    /\ IsNumeral(HourText(str)) /\ IsNumeral(MinuteText(str))
    /\ ValueUpTo100(HourText(str)) < 24
    /\ ValueUpTo100(MinuteText(str)) < 60

MinuteOfDay(str) == 60 * ValueUpTo100(HourText(str)) + ValueUpTo100(MinuteText(str))

\* zero-padded HH:MM of a minute of the day 0..1439
ClockText(n) == Pad2(n \div 60) \o <<":">> \o Pad2(n % 60)

DurationText(h, m) ==
    IF m > 0
    THEN DecStr(h) \o <<" ", "u", "u", "r", " ", "e", "n", " ">> \o DecStr(m)
             \o <<" ", "m", "i", "n", "u", "t", "e", "n">>
    ELSE DecStr(h) \o <<" ", "u", "u", "r">>

F64_Half == F64Div(F64_1, F64FromInt(2))

\* the natural number t is x rounded to the nearest integer, halves upward:
\* t - 1/2 <= x < t + 1/2 (t - 1/2 and t + 1/2 are exact in f64)
IsNearest(x, t) ==
    /\ F64Le(F64Sub(F64FromInt(t), F64_Half), x)
    /\ F64Lt(x, F64Add(F64FromInt(t), F64_Half))

Around(n) == {t \in (n - 1)..(n + 1) : t >= 0}

\* the same for a finite x >= 0 of any size and a natural number t given by
\* its digits: 2t <= 2x + 1 and 2x < 2t + 1, both sides scaled to integers
IsNearestNat(x, t) ==
    LET k == IF x.e < 0 THEN -x.e ELSE 0
        x2 == BShl(x.m, 1 + (IF x.e > 0 THEN x.e ELSE 0))
        t2 == BShl(t, k + 1)
        one == BShl(<<1>>, k)
    IN  BCmp(t2, BAdd(x2, one)) <= 0 /\ BCmp(x2, BAdd(t2, one)) < 0

\* the natural numbers next to a finite x >= 0
AroundNat(x) ==
    LET w == IF x.e >= 0 THEN BShl(x.m, x.e) ELSE BShr(x.m, -x.e)
    IN  {w, BAdd(w, <<1>>)}

\* a natural number given by its digits, modulo a small x
NatMod(a, x) == BToInt(BSub(a, BMulSmall(BDivSmallFrom(a, x, Len(a), 0, <<>>), x)))

\* the total time in minutes: arrival - start, plus a day with is_next_day
DiffMins(c) ==
    MinuteOfDay(c.arrival_time) - MinuteOfDay(c.start_time)
        + (IF c.is_next_day THEN MinutesPerDay ELSE 0)

\* the message of the first validation that fails, in the order of 4.1; the
\* comparisons are those of f64, which NaN never satisfies
FirstFailure(c) ==
    IF ~IsTimeText(c.start_time) THEN "Ongeldige starttijd."
    ELSE IF ~IsTimeText(c.arrival_time) THEN "Ongeldige aankomsttijd."
    ELSE IF F64Le(c.distance, F64_0) THEN "Afstand moet groter zijn dan 0."
    ELSE IF F64Le(c.sail_speed, F64_0) THEN "Zeilsnelheid moet groter zijn dan 0."
    ELSE IF F64Le(c.motor_speed, F64_0) THEN "Motorsnelheid moet groter zijn dan 0."
    ELSE IF F64Le(c.motor_speed, c.sail_speed)
    THEN "Motorsnelheid moet groter zijn dan zeilsnelheid."
    ELSE IF DiffMins(c) <= 0 THEN "Aankomsttijd moet later zijn dan starttijd."
    ELSE "none"

\* both times parseable, distance > 0, sail speed > 0, motor speed > sail
\* speed, total time > 0
ValidInput(c) ==
    /\ IsTimeText(c.start_time) /\ IsTimeText(c.arrival_time)
    /\ F64Gt(c.distance, F64_0)
    /\ F64Gt(c.sail_speed, F64_0)
    /\ F64Gt(c.motor_speed, c.sail_speed)
    /\ DiffMins(c) > 0

\* x * a against y * b in exact arithmetic, for finite x, y > 0 and whole
\* a, b in 1..Base: -1, 0, 1
ScaledCmp(x, a, y, b) ==
    LET xa == BMulSmall(x.m, a)
        yb == BMulSmall(y.m, b)
        tx == x.e + BBitLen(xa)
        ty == y.e + BBitLen(yb)
        low == IF x.e < y.e THEN x.e ELSE y.e
    IN  IF tx < ty THEN -1
        ELSE IF tx > ty THEN 1
        ELSE BCmp(BShl(xa, x.e - low), BShl(yb, y.e - low))

\* distance / speed <= totalTime on the values of the arguments, exactly
\* (totalTime = DiffMins / 60 hours), for a valid input
WithinBudget(distance, speed, diff_mins) ==
    IF F64IsInf(distance) THEN FALSE
    ELSE IF F64IsInf(speed) THEN TRUE
    ELSE ScaledCmp(distance, 60, speed, diff_mins) <= 0

SailingSuffices(c) == WithinBudget(c.distance, c.sail_speed, DiffMins(c))
MotoringTooSlow(c) == ~WithinBudget(c.distance, c.motor_speed, DiffMins(c))

\* text is the clock time `hours` after start_time: start plus hours * 60
\* rounded to the nearest minute, modulo a day
IsClockAfter(text, start_time, hours) ==
    LET x == F64Mul(hours, SixtyF)
    IN  \E t \in AroundNat(x) :
           /\ IsNearestNat(x, t)
           /\ text = ClockText((MinuteOfDay(start_time) + NatMod(t, MinutesPerDay))
                                   % MinutesPerDay)

\* a value that is finite and not negative
IsElapsed(x) == x.k = "fin" /\ (x.sg = 0 \/ F64IsZero(x))

(***************************************************************************)
(* The claims                                                              *)
(***************************************************************************)

\* C1: for every valid input with distance / sailSpeed <= totalTime,
\* calculate returns SailOnly with sail_fraction 1 and motor_fraction 0,
\* whatever the metric flag and the fuel rate.
C1_SailOnlyWhenSailingSuffices ==
    (Returned("calculate") /\ ValidInput(call) /\ SailingSuffices(call))
        => /\ ret.scenario = SCENARIO_SAIL_ONLY
           /\ ret.sail_fraction = F64_1
           /\ ret.motor_fraction = F64_0

\* C2: for every valid input, on SailAndMotor the changeover
\* point is in [0, totalTime] and sail_fraction + motor_fraction is exactly 1.
C2_FractionsSumToOne ==
    (Returned("calculate") /\ ValidInput(call) /\ ret.scenario = SCENARIO_SAIL_AND_MOTOR)
        => /\ F64Ge(ret.locals.changeover_point, F64_0)
           /\ F64Le(ret.locals.changeover_point, ret.locals.total_time)
           /\ F64Eq(F64Add(ret.sail_fraction, ret.motor_fraction), F64_1)

\* C3: for every valid input, calculate returns MotorLate (sail_fraction 0,
\* motor_fraction 1) if and only if distance / motorSpeed > totalTime.
C3_MotorLateIffMotoringTooSlow ==
    (Returned("calculate") /\ ValidInput(call))
        => /\ (ret.scenario = SCENARIO_MOTOR_LATE) <=> MotoringTooSlow(call)
           /\ ret.scenario = SCENARIO_MOTOR_LATE
                 => ret.sail_fraction = F64_0 /\ ret.motor_fraction = F64_1

\* C4: calculate returns Error if and only if some validation fails (a time
\* that is no valid HH:MM, distance <= 0, sail speed <= 0, motor speed <= 0,
\* motor speed <= sail speed, total time <= 0); the message is that of the
\* first failing check in that order; both fractions are 0 and the result
\* carries nothing of the scenario arithmetic.
C4_ErrorIffFirstFailure ==
    Returned("calculate")
        => /\ (ret.scenario = SCENARIO_ERROR) <=> FirstFailure(call) # "none"
           /\ ret.scenario = SCENARIO_ERROR
                 => ret = [scenario       |-> SCENARIO_ERROR,
                           result_html    |-> [text |-> FirstFailure(call)],
                           sail_fraction  |-> F64_0,
                           motor_fraction |-> F64_0]

\* C4 witness: every argument is valid by itself, but the arrival is not
\* after the start and the next-day flag is not set: the last check fails.
C4_Witness ==
    /\ Returned("calculate") /\ ret.scenario = SCENARIO_ERROR
    /\ ret.result_html.text = "Aankomsttijd moet later zijn dan starttijd."
    /\ DiffMins(call) < 0

\* C5: on every non-error outcome sail_fraction and motor_fraction are each
\* in [0, 1] and their sum is at most 1.
C5_FractionsInUnitInterval ==
    (Returned("calculate") /\ ret.scenario # SCENARIO_ERROR)
        => /\ F64Ge(ret.sail_fraction, F64_0) /\ F64Le(ret.sail_fraction, F64_1)
           /\ F64Ge(ret.motor_fraction, F64_0) /\ F64Le(ret.motor_fraction, F64_1)
           /\ F64Le(F64Add(ret.sail_fraction, ret.motor_fraction), F64_1)

\* C6: the clock time reported is the start time plus the elapsed hours
\* rounded to the nearest minute, modulo 1440, as zero-padded HH:MM: the
\* motor start of SailAndMotor from the changeover point, the expected
\* arrival of MotorLate from the full motoring time, also when the sum
\* reaches or passes 1440.
C6_ReportedClockTimes ==
    Returned("calculate")
        => /\ (/\ ret.scenario = SCENARIO_SAIL_AND_MOTOR
               /\ IsElapsed(ret.locals.changeover_point))
                 => IsClockAfter(ret.result_html.args[7], call.start_time,
                                 ret.locals.changeover_point)
           /\ (/\ ret.scenario = SCENARIO_MOTOR_LATE
               /\ IsElapsed(ret.locals.time_to_motor_full))
                 => IsClockAfter(ret.result_html.args[1], call.start_time,
                                 ret.locals.time_to_motor_full)

\* C7: needs_next_day is true if and only if both texts are valid times and
\* the arrival minute of the day is strictly below the start's; equal times
\* and unparseable texts give false.
C7_NeedsNextDayIffStrictlyBefore ==
    Returned("needs_next_day")
        => ret = (/\ IsTimeText(call.start_time)
                  /\ IsTimeText(call.arrival_time)
                  /\ MinuteOfDay(call.arrival_time) < MinuteOfDay(call.start_time))

\* C7 witness: needsNextDay("08:00", "07:59") has returned true.
C7_Witness ==
    /\ Returned("needs_next_day") /\ ret = TRUE
    /\ call.start_time = <<"0","8",":","0","0">>
    /\ call.arrival_time = <<"0","7",":","5","9">>

\* C8: format_clock maps every minute offset m, negative ones and those of
\* 1440 and more included, to the zero-padded HH:MM of m modulo 1440 taken
\* in 0..1439 (format_clock(-30) = "23:30", format_clock(1440) = "00:00").
C8_FormatClockFloorModulo ==
    Returned("format_clock")
        => ret = ClockText(call.total_minutes % MinutesPerDay)

\* C9: for a non-negative duration, format_time rounds the duration in
\* minutes (hours * 60.0) to the nearest whole minute T, and renders
\* T div 60 hours and T mod 60 minutes: "{h} uur en {m} minuten" when m > 0,
\* "{h} uur" when m = 0.
C9_FormatTimeRoundsToMinute ==
    (Returned("format_time") /\ call.num >= 0 /\ call.den > 0)
        => \E T \in Around((120 * call.num + call.den) \div (2 * call.den)) :
              /\ IsNearest(F64Mul(F64Div(F64FromInt(call.num), F64FromInt(call.den)),
                                  SixtyF), T)
              /\ ret = DurationText(T \div 60, T % 60)

\* C9 witness: format_time(0.999999) has returned "1 uur": 59.99994 minutes
\* round up to 60, which carries into the hour.
C9_Witness ==
    /\ Returned("format_time") /\ call.num = 999999 /\ call.den = 1000000
    /\ ret = <<"1", " ", "u", "u", "r">>

\* C10: for every valid input calculate never returns MotorOnly.
C10_NeverMotorOnly ==
    (Returned("calculate") /\ ValidInput(call)) => ret.scenario # SCENARIO_MOTOR_ONLY

====
